---------------------------- MODULE Spec2Model ----------------------------
(***************************************************************************)
(* A model of the two front-ends of the Demucs vocal separator:            *)
(*   src/app.py                 the Flask front-end (run_demucs_debug,     *)
(*                              separate)                                  *)
(*   src/gui_vocal_separator.py the Tk front-end (locate_output_dir,       *)
(*                              App.start_separation and its worker)       *)
(* File and directory names are strings; a path is the sequence of its     *)
(* components.  The external tool is an environment process: it writes     *)
(* directories and files below the --out root it was given, emits output   *)
(* lines and exits with a status.                                          *)
(***************************************************************************)
EXTENDS Integers, Sequences, FiniteSets, TLC

(***************************************************************************)
(* Bounds of the model.                                                    *)
(***************************************************************************)
MaxJobs  == 2   \* web: concurrent requests; desktop: clicks on the start button
MaxDirs  == 3   \* directories the tool creates below the output roots, in all
MaxFiles == 2   \* files the tool writes below the output roots, in all
MaxLines == 2   \* output lines one run of the tool emits

(***************************************************************************)
(* Program constants.                                                      *)
(***************************************************************************)
MODEL_NAME == "htdemucs_ft"            \* app.py MODEL_NAME, gui MODEL
RESULTS_DIR == <<"results">>           \* app.py RESULTS_DIR
NoStatus == 1000                       \* returncode of a process that has not exited
None == <<>>                           \* Python's None, for a path

(***************************************************************************)
(* Inputs of the model.                                                    *)
(***************************************************************************)
Jobs == 1..MaxJobs
JobIds == {"a1", "b2"}                    \* uuid.uuid4().hex drawn for a job, app.py 91
UploadIds == {"a1"}                       \* uuid.uuid4().hex drawn for an upload, app.py 196
UploadNames == {"song.mp3", "mix.tar.gz"} \* file.filename of an upload
ExitCodes == {0, 1}                       \* exit statuses of the tool
UNRELATED == "x"                              \* a directory name that is neither the model nor the track
\* names the tool may give the files it writes
FileNames == {"track_vocals.mp3", "track_no_vocals.mp3", "x_other.mp3"}
\* the two files of a --two-stems=vocals --mp3 run
StandardStems == {"vocals.mp3", "no_vocals.mp3"}
\* the audio entry of the desktop form: a path, and whether it exists
AudioInputs ==
    {[path |-> None, exists |-> FALSE],
     [path |-> <<"music", "gone.wav">>, exists |-> FALSE],
     [path |-> <<"music", "song.mp3">>, exists |-> TRUE]}
\* the output-folder entry of the desktop form, None when left empty
OutInputs == {None, <<"music", "song">>}
HOME_SEPARATED == <<"home", "separated">>  \* gui 103: ~/separated

(***************************************************************************)
(* Strings.  str.lower, the `in' test, str.startswith, and pathlib's       *)
(* suffix and stem, computed character by character.                       *)
(***************************************************************************)
Upper == "ABCDEFGHIJKLMNOPQRSTUVWXYZ"
LowerAlpha == "abcdefghijklmnopqrstuvwxyz"

CharAt(s, i) == SubSeq(s, i, i)

LowerTable ==
    [c \in {CharAt(Upper, k) : k \in 1..Len(Upper)} |->
        CharAt(LowerAlpha, CHOOSE k \in 1..Len(Upper) : CharAt(Upper, k) = c)]

LowerChar(c) == IF c \in DOMAIN LowerTable THEN LowerTable[c] ELSE c

RECURSIVE lower(_)
lower(s) ==
    IF Len(s) = 0 THEN s
    ELSE LowerChar(CharAt(s, 1)) \o lower(SubSeq(s, 2, Len(s)))

\* sub in s
Contains(sub, s) ==
    \E i \in 1..(Len(s) - Len(sub) + 1) : SubSeq(s, i, i + Len(sub) - 1) = sub

\* s.startswith(prefix)
startswith(s, prefix) ==
    Len(prefix) <= Len(s) /\ SubSeq(s, 1, Len(prefix)) = prefix

\* s.rfind("."): the last position of a dot, 0 when there is none
RFindDot(s) ==
    IF \E i \in 1..Len(s) : CharAt(s, i) = "."
    THEN CHOOSE i \in 1..Len(s) :
            /\ CharAt(s, i) = "."
            /\ \A k \in (i + 1)..Len(s) : CharAt(s, k) # "."
    ELSE 0

\* pathlib.PurePath.suffix of a file name: from the last dot on, unless the
\* dot is the first or the last character
suffix(name) ==
    LET i == RFindDot(name)
    IN  IF 1 < i /\ i < Len(name) THEN SubSeq(name, i, Len(name)) ELSE ""

\* pathlib.PurePath.stem of a file name: the name without its suffix
stem(name) ==
    LET i == RFindDot(name)
    IN  IF 1 < i /\ i < Len(name) THEN SubSeq(name, 1, i - 1) ELSE name

(***************************************************************************)
(* Paths.                                                                  *)
(***************************************************************************)
Join(p, n) == Append(p, n)                       \* p / n, os.path.join(p, n)
basename(p) == IF Len(p) = 0 THEN "" ELSE p[Len(p)]
IsPrefix(p, q) == Len(p) <= Len(q) /\ SubSeq(q, 1, Len(p)) = p
IsUnder(q, p) == IsPrefix(p, q) /\ Len(p) < Len(q)   \* q lies strictly below p

\* every ordering of a finite set of names: one order of enumeration that
\* os.scandir / os.listdir may give
RECURSIVE Perms(_)
Perms(S) ==
    IF S = {} THEN {<<>>}
    ELSE UNION {{<<e>> \o t : t \in Perms(S \ {e})} : e \in S}

(***************************************************************************)
(* os.walk(top), top-down, over the directories D, the entries of every    *)
(* directory enumerated in the order ord: the sequence of the directories  *)
(* it yields.                                                              *)
(***************************************************************************)
\* the `dirs' list os.walk yields for directory r
subdirs(r, D, ord) == SelectSeq(ord, LAMBDA n : Join(r, n) \in D)

RECURSIVE walk(_, _, _)
RECURSIVE walkEach(_, _, _, _)
walk(top, D, ord) ==
    IF top \notin D THEN <<>>
    ELSE <<top>> \o walkEach(top, subdirs(top, D, ord), D, ord)
walkEach(top, ds, D, ord) ==
    IF ds = <<>> THEN <<>>
    ELSE walk(Join(top, Head(ds)), D, ord) \o walkEach(top, Tail(ds), D, ord)

(***************************************************************************)
(* Output locator, web variant: run_demucs_debug, app.py 133-146.          *)
(* The result: dir, the located directory or None; walked, whether         *)
(* os.walk was run; met, the directories named base in the order the loop  *)
(* met them; disk, the directories that were on disk.                      *)
(***************************************************************************)
\* a slip that leaves the model name out of the expected path
web_expected_bug(out_root, base) == Join(out_root, base)
\* app.py 134
web_expected(out_root, base) == Join(Join(out_root, MODEL_NAME), base)

\* app.py 140-143: the inner loop over one `dirs' list, with its break
RECURSIVE web_inner(_, _, _, _)
web_inner(root, ds, base, found) ==
    IF ds = <<>> THEN found
    ELSE IF Head(ds) = base THEN Join(root, Head(ds))
    ELSE web_inner(root, Tail(ds), base, found)

\* app.py 138-143: the outer loop over os.walk; the break above leaves only
\* the inner loop, so a later root overwrites found
RECURSIVE web_outer(_, _, _, _, _)
web_outer(visits, D, ord, base, found) ==
    IF visits = <<>> THEN found
    ELSE web_outer(Tail(visits), D, ord, base,
                   web_inner(Head(visits), subdirs(Head(visits), D, ord), base, found))

web_met(visits, D, base) ==
    LET hits == SelectSeq(visits, LAMBDA r : Join(r, base) \in D)
    IN  [i \in 1..Len(hits) |-> Join(hits[i], base)]

web_locate(out_root, base, D, ord) ==
    LET model_dir == web_expected(out_root, base)
    IN  IF model_dir \in D
        THEN [dir |-> model_dir, walked |-> FALSE, met |-> <<>>, disk |-> D]
        ELSE LET visits == walk(out_root, D, ord)
             IN  [dir    |-> web_outer(visits, D, ord, base, None),
                  walked |-> TRUE,
                  met    |-> web_met(visits, D, base),
                  disk   |-> D]

(***************************************************************************)
(* Output locator, desktop variant: locate_output_dir, gui 21-30.          *)
(***************************************************************************)
\* gui 27-30: the first directory the walk yields whose basename is base
RECURSIVE gui_scan(_, _)
gui_scan(visits, base) ==
    IF visits = <<>> THEN None
    ELSE IF basename(Head(visits)) = base THEN Head(visits)
    ELSE gui_scan(Tail(visits), base)

locate_output_dir(out_root, model_name, base, D, ord) ==
    LET expected == Join(Join(out_root, model_name), base)
    IN  IF expected \in D
        THEN [dir |-> expected, walked |-> FALSE, met |-> <<>>, disk |-> D]
        ELSE LET visits == walk(out_root, D, ord)
             IN  [dir    |-> gui_scan(visits, base),
                  walked |-> TRUE,
                  met    |-> SelectSeq(visits, LAMBDA r : basename(r) = base),
                  disk   |-> D]

(***************************************************************************)
(* Stem classifier: app.py 151-160, gui 126-133.  One pass over the        *)
(* listing, each match overwriting the one before.                         *)
(***************************************************************************)
\* app.py 157, gui 130
is_vocals(low) == Contains("vocals", low) /\ ~startswith(low, "no_")
\* app.py 159, gui 132
is_instrumental(low) ==
    Contains("no_vocals", low) \/ Contains("accompaniment", low) \/ Contains("other", low)

\* the two tests of every name the model's directories can hold, worked out
\* once: fn.lower() and the two conditions, app.py 155-159, gui 129-132
EntryNames ==
    FileNames \cup StandardStems \cup JobIds \cup UploadIds \cup {MODEL_NAME, UNRELATED, "raw"}
    \cup {stem(basename(a.path)) : a \in {i \in AudioInputs : i.path # None}}
name_tests ==
    [fn \in EntryNames |->
        LET low == lower(fn)
        IN  [vocals |-> is_vocals(low), inst |-> is_instrumental(low)]]

tests(fn) ==
    IF fn \in DOMAIN name_tests THEN name_tests[fn]
    ELSE [vocals |-> is_vocals(lower(fn)), inst |-> is_instrumental(lower(fn))]

RECURSIVE classify(_, _, _)
classify(dir, listing, acc) ==
    IF listing = <<>> THEN acc
    ELSE LET fn   == Head(listing)
             full == Join(dir, fn)
             a1   == IF tests(fn).vocals THEN [acc EXCEPT !.vocals = full] ELSE acc
             a2   == IF tests(fn).inst THEN [a1 EXCEPT !.inst = full] ELSE a1
         IN  classify(dir, Tail(listing), a2)

Unclassified == [vocals |-> None, inst |-> None]

VARIABLES
    frontend,   \* "web" (app.py) or "desktop" (gui_vocal_separator.py)
    mode,       \* "single": one job, the tool free within the bounds;
                \* "multi": MaxJobs jobs, each run of the tool leaving nothing
                \* or the standard layout
    dirs,       \* the directories on disk, as paths
    files,      \* the regular files on disk, as paths
    pc,         \* where each job is
    job_id,     \* web: job_id of run_demucs_debug
    out_root,   \* the --out root of each job
    base,       \* the stem of the job's input file
    code,       \* the tool's exit status, NoStatus before it exits
    loc,        \* what the output locator returned
    listing,    \* os.listdir of the located directory
    stems,      \* vocals / inst picked by the classifier
    resp,       \* what the user is shown: web, the response of separate();
                \* desktop, the error box
    produced,   \* the paths the job's run of the tool wrote
    published,  \* web: the files the job copied to its job folder
    steps,      \* the steps each job ran, in order
    run_btn,    \* desktop: state of the start button
    log,        \* desktop: the log pane, one entry per append_log
    stdout,     \* desktop: lines the tool wrote that the worker has not read
    proc,       \* desktop: the child process of each job
    sent,       \* desktop: the lines the tool wrote, in order
    result_dir  \* desktop: App.result_dir

vars == <<frontend, mode, dirs, files, pc, job_id, out_root, base, code, loc, listing,
          stems, resp, produced, published, steps, run_btn, log, stdout, proc,
          sent, result_dir>>
webOnly == <<job_id, published>>
guiOnly == <<run_btn, log, stdout, proc, sent, result_dir>>

NoLoc == [dir |-> None, walked |-> FALSE, met |-> <<>>, disk |-> {}]
NoResp == [kind |-> "none", msg |-> "", vocals_url |-> None, instrumental_url |-> None]
Flash(m) == [kind |-> "flash", msg |-> m, vocals_url |-> None, instrumental_url |-> None]
Render(v, i) == [kind |-> "render", msg |-> "", vocals_url |-> v, instrumental_url |-> i]
Entry(k, v) == [k |-> k, v |-> v]          \* one append_log call

Range(s) == {s[i] : i \in 1..Len(s)}

Init ==
    /\ frontend \in {"web", "desktop"}
    /\ mode \in {"single", "multi"}
    /\ dirs = IF frontend = "web" THEN {RESULTS_DIR} ELSE {}   \* app.py 19-20
    /\ files = {}
    /\ pc = [j \in Jobs |-> "idle"]
    /\ job_id = [j \in Jobs |-> ""]
    /\ out_root = [j \in Jobs |-> None]
    /\ base = [j \in Jobs |-> ""]
    /\ code = [j \in Jobs |-> NoStatus]
    /\ loc = [j \in Jobs |-> NoLoc]
    /\ listing = [j \in Jobs |-> <<>>]
    /\ stems = [j \in Jobs |-> Unclassified]
    /\ resp = [j \in Jobs |-> NoResp]
    /\ produced = [j \in Jobs |-> {}]
    /\ published = [j \in Jobs |-> {}]
    /\ steps = [j \in Jobs |-> <<>>]
    /\ run_btn = "normal"
    /\ log = <<>>
    /\ stdout = [j \in Jobs |-> <<>>]
    /\ proc = [j \in Jobs |-> "none"]
    /\ sent = [j \in Jobs |-> <<>>]
    /\ result_dir = None

(***************************************************************************)
(* The file system and the external tool.                                  *)
(***************************************************************************)
\* the directories below some job's output root: what the tool made
ToolDirs(D) ==
    {p \in D : \E j \in Jobs : out_root[j] # None /\ IsUnder(p, out_root[j])}
ToolFiles(F) ==
    {p \in F : \E j \in Jobs : out_root[j] # None /\ IsUnder(p, out_root[j])}

\* root and the directories below it
Tree(root, D) == {p \in D : IsPrefix(root, p)}

\* os.listdir(d): the names of the entries of d, directories and files
entries(d, D, F) ==
    {basename(p) : p \in {q \in D \cup F : Len(q) = Len(d) + 1 /\ IsPrefix(d, q)}}

\* the names of the directories below root: what an enumeration orders
NamesUnder(root, D) == {basename(p) : p \in {q \in D : IsUnder(q, root)}}

\* the tool, given --out root and a track named b, makes up to n more
\* directories below root: every set of directories it may leave
RECURSIVE Grow(_, _, _, _)
Grow(root, names, D, n) ==
    IF n = 0 THEN {D}
    ELSE LET cands == {c \in {Join(p, nm) : p \in Tree(root, D), nm \in names} :
                          c \notin D}
         IN  {D} \cup UNION {Grow(root, names, D \cup {c}, n - 1) : c \in cands}

\* what one run of the tool may leave on disk: more directories below root,
\* and up to the budget of new files in one of root's directories
RichOutputs(root, b) ==
    LET room  == MaxDirs - Cardinality(ToolDirs(dirs))
        froom == MaxFiles - Cardinality(ToolFiles(files))
        sets  == {fs \in SUBSET FileNames : Cardinality(fs) <= froom} \cup {StandardStems}
    IN  UNION {{[dirs |-> D, files |-> files \cup {Join(c[1], f) : f \in c[2]}] :
                   c \in {t \in Tree(root, D) : basename(t) = b} \X sets}
               \cup {[dirs |-> D, files |-> files]} :
               D \in Grow(root, {MODEL_NAME, b, UNRELATED}, dirs, room)}

\* the standard layout: root/<model>/<track>/ holding the two stems
StandardOutput(root, b) ==
    LET d == Join(Join(root, MODEL_NAME), b)
    IN  [dirs  |-> dirs \cup {Join(root, MODEL_NAME), d},
         files |-> files \cup {Join(d, f) : f \in StandardStems}]

ToolOutputs(root, b) ==
    IF mode = "single" THEN RichOutputs(root, b)
    ELSE {[dirs |-> dirs, files |-> files], StandardOutput(root, b)}

\* a slip that takes only a negative status (a signal) for a failure
tool_failed_bug(returncode) == returncode < 0
\* a non-zero exit status is a failure: app.py 126, gui 120
tool_failed(returncode) == returncode # 0

(***************************************************************************)
(* The web front-end: separate() and run_demucs_debug() of app.py.         *)
(***************************************************************************)
\* a slip that leaves the job identifier out of the job folder
job_dir_of_bug(jid) == Join(RESULTS_DIR, "job")
job_dir_of(jid) == Join(RESULTS_DIR, jid)                     \* app.py 92
job_dir(j) == job_dir_of(job_id[j])
raw_of(jid) == Join(job_dir_of(jid), "raw")                   \* app.py 95
\* a slip that fails the job only when both stems are missing
missing_stems_bug(st) == st.vocals = None /\ st.inst = None
\* app.py 162
missing_stems(st) == st.vocals = None \/ st.inst = None
\* Path.relative_to(RESULTS_DIR), app.py 211-212
relative_to(p, d) == SubSeq(p, Len(d) + 1, Len(p))
\* app.py 166-167: the names of the two published files
vocals_out(j) == Join(job_dir(j), base[j] \o "_vocals" \o suffix(basename(stems[j].vocals)))
inst_out(j) == Join(job_dir(j), base[j] \o "_instrumental" \o suffix(basename(stems[j].inst)))

\* the next request or click: jobs are taken in order
NextJob(j) ==
    /\ pc[j] = "idle" /\ \A k \in 1..(j - 1) : pc[k] # "idle"
    /\ mode = "single" => j = 1

\* app.py 189-192: a request without a file
WebNoFile(j) ==
    /\ frontend = "web" /\ NextJob(j)
    /\ resp' = [resp EXCEPT ![j] = Flash("No file uploaded.")]
    /\ pc' = [pc EXCEPT ![j] = "done"]
    /\ UNCHANGED <<frontend, mode, dirs, files, job_id, out_root, base, code, loc, listing,
                   stems, produced, published, steps>>
    /\ UNCHANGED guiOnly

\* app.py 194-198 and 91-96: the upload is saved under a fresh name, the job
\* identifier is drawn, the job folder and its raw subfolder are made
WebSeparate(j) ==
    /\ frontend = "web" /\ NextJob(j)
    /\ \E filename \in UploadNames, uid \in UploadIds, jid \in JobIds :
          LET upload_name == uid \o suffix(filename)
              jd == job_dir_of(jid)
          IN  /\ base' = [base EXCEPT ![j] = stem(upload_name)]
              /\ job_id' = [job_id EXCEPT ![j] = jid]
              /\ out_root' = [out_root EXCEPT ![j] = raw_of(jid)]
              /\ dirs' = dirs \cup {jd, raw_of(jid)}
    /\ pc' = [pc EXCEPT ![j] = "run"]
    /\ steps' = [steps EXCEPT ![j] = Append(@, "mkdir")]
    /\ UNCHANGED <<frontend, mode, files, code, loc, listing, stems, resp, produced, published>>
    /\ UNCHANGED guiOnly

\* app.py 115-120: subprocess.run cannot start the tool and raises
WebRunRaises(j) ==
    /\ frontend = "web" /\ pc[j] = "run"
    /\ resp' = [resp EXCEPT ![j] = Flash("OSError")]
    /\ pc' = [pc EXCEPT ![j] = "done"]
    /\ UNCHANGED <<frontend, mode, dirs, files, job_id, out_root, base, code, loc, listing,
                   stems, produced, published, steps>>
    /\ UNCHANGED guiOnly

\* app.py 115-120: subprocess.run blocks until the tool has written its
\* output below out_root and exited
WebRunDemucs(j) ==
    /\ frontend = "web" /\ pc[j] = "run"
    /\ \E out \in ToolOutputs(out_root[j], base[j]), rc \in ExitCodes :
          /\ dirs' = out.dirs
          /\ files' = out.files
          /\ produced' = [produced EXCEPT ![j] = (out.dirs \ dirs) \cup (out.files \ files)]
          /\ code' = [code EXCEPT ![j] = rc]
    /\ pc' = [pc EXCEPT ![j] = "ran"]
    /\ steps' = [steps EXCEPT ![j] = Append(@, "run")]
    /\ UNCHANGED <<frontend, mode, job_id, out_root, base, loc, listing, stems, resp, published>>
    /\ UNCHANGED guiOnly

\* app.py 126-130: the exit status is not zero
WebExitFailure(j) ==
    /\ frontend = "web" /\ pc[j] = "ran"
    /\ tool_failed(code[j])
    /\ resp' = [resp EXCEPT ![j] = Flash("Demucs error")]
    /\ pc' = [pc EXCEPT ![j] = "done"]
    /\ UNCHANGED <<frontend, mode, dirs, files, job_id, out_root, base, code, loc, listing,
                   stems, produced, published, steps>>
    /\ UNCHANGED guiOnly

\* app.py 126-163: the exit status is zero; locate the output folder, list
\* it and pick the two stems
WebLocateClassify(j) ==
    /\ frontend = "web" /\ pc[j] = "ran"
    /\ ~tool_failed(code[j])
    /\ \E ord \in Perms(NamesUnder(out_root[j], dirs)) :
          LET r == web_locate(out_root[j], base[j], dirs, ord)
          IN  /\ loc' = [loc EXCEPT ![j] = r]
              /\ IF r.dir = None
                 THEN /\ resp' = [resp EXCEPT ![j] = Flash("Could not locate Demucs output folder.")]
                      /\ pc' = [pc EXCEPT ![j] = "done"]
                      /\ steps' = [steps EXCEPT ![j] = Append(@, "locate")]
                      /\ UNCHANGED <<listing, stems>>
                 ELSE \E ls \in Perms(entries(r.dir, dirs, files)) :
                         LET st == classify(r.dir, ls, Unclassified)
                         IN  /\ listing' = [listing EXCEPT ![j] = ls]
                             /\ stems' = [stems EXCEPT ![j] = st]
                             /\ steps' = [steps EXCEPT ![j] = Append(Append(@, "locate"), "classify")]
                             /\ IF missing_stems(st)
                                THEN /\ resp' = [resp EXCEPT ![j] =
                                            Flash("Could not find vocals/instrumental files.")]
                                     /\ pc' = [pc EXCEPT ![j] = "done"]
                                ELSE /\ pc' = [pc EXCEPT ![j] = "copy_vocals"]
                                     /\ UNCHANGED resp
    /\ UNCHANGED <<frontend, mode, dirs, files, job_id, out_root, base, code, produced, published>>
    /\ UNCHANGED guiOnly

\* app.py 169: shutil.copy2(vocals, vocals_out); it raises when the source
\* is no regular file, and may raise on an I/O error
WebCopyVocals(j) ==
    /\ frontend = "web" /\ pc[j] = "copy_vocals"
    /\ \E io_ok \in BOOLEAN :
          IF io_ok /\ stems[j].vocals \in files
          THEN /\ files' = files \cup {vocals_out(j)}
               /\ published' = [published EXCEPT ![j] = @ \cup {vocals_out(j)}]
               /\ pc' = [pc EXCEPT ![j] = "copy_inst"]
               /\ UNCHANGED resp
          ELSE /\ resp' = [resp EXCEPT ![j] = Flash("OSError")]
               /\ pc' = [pc EXCEPT ![j] = "done"]
               /\ UNCHANGED <<files, published>>
    /\ steps' = [steps EXCEPT ![j] = Append(@, "publish")]
    /\ UNCHANGED <<frontend, mode, dirs, job_id, out_root, base, code, loc, listing, stems, produced>>
    /\ UNCHANGED guiOnly

\* app.py 170-176 and 211-219: shutil.copy2(inst, inst_out), then the
\* response with the two result URLs
WebCopyInst(j) ==
    /\ frontend = "web" /\ pc[j] = "copy_inst"
    /\ \E io_ok \in BOOLEAN :
          IF io_ok /\ stems[j].inst \in files
          THEN /\ files' = files \cup {inst_out(j)}
               /\ published' = [published EXCEPT ![j] = @ \cup {inst_out(j)}]
               /\ resp' = [resp EXCEPT ![j] =
                              Render(relative_to(vocals_out(j), RESULTS_DIR),
                                     relative_to(inst_out(j), RESULTS_DIR))]
          ELSE /\ resp' = [resp EXCEPT ![j] = Flash("OSError")]
               /\ UNCHANGED <<files, published>>
    /\ pc' = [pc EXCEPT ![j] = "done"]
    /\ UNCHANGED <<frontend, mode, dirs, job_id, out_root, base, code, loc, listing, stems,
                   produced, steps>>
    /\ UNCHANGED guiOnly

WebNext ==
    \E j \in Jobs :
        \/ WebNoFile(j)
        \/ WebSeparate(j)
        \/ WebRunRaises(j)
        \/ WebRunDemucs(j)
        \/ WebExitFailure(j)
        \/ WebLocateClassify(j)
        \/ WebCopyVocals(j)
        \/ WebCopyInst(j)

(***************************************************************************)
(* The desktop front-end: App.start_separation and its worker thread.      *)
(***************************************************************************)
\* os.makedirs(out_root, exist_ok=True), gui 104
makedirs(p) == {SubSeq(p, 1, n) : n \in 1..Len(p)}

\* a slip that leaves the start button enabled while a job runs
btn_after_start_bug == "normal"
\* gui 110: the start button while a job runs
btn_after_start == "disabled"
\* a slip that leaves the start button disabled after the worker
btn_after_finally_bug == "disabled"
\* gui 148: the start button once the worker is through
btn_after_finally == "normal"

\* gui 117: the for loop over proc.stdout ends when the tool has closed its
\* output and every line it wrote has been read
at_eof(j) == proc[j] = "exited" /\ stdout[j] = <<>>

\* gui 98-101: no audio file, or one that does not exist; the message box
\* is shown and the handler returns
GuiRejectInput(j) ==
    /\ frontend = "desktop" /\ NextJob(j) /\ run_btn = "normal"
    /\ \E a \in AudioInputs : a.path = None \/ ~a.exists
    /\ resp' = [resp EXCEPT ![j] = Flash("Please choose an existing audio file.")]
    /\ pc' = [pc EXCEPT ![j] = "rejected"]
    /\ UNCHANGED <<frontend, mode, dirs, files, out_root, base, code, loc, listing, stems,
                   produced, steps>>
    /\ UNCHANGED <<webOnly, guiOnly>>

\* gui 97-110 and 150: a click on the enabled start button
start_separation(j) ==
    /\ frontend = "desktop" /\ NextJob(j) /\ run_btn = "normal"
    /\ \E a \in AudioInputs, out \in OutInputs :
          /\ a.path # None /\ a.exists
          /\ LET root == IF out = None THEN HOME_SEPARATED ELSE out
             IN  /\ out_root' = [out_root EXCEPT ![j] = root]
                 /\ dirs' = dirs \cup makedirs(root)
                 /\ log' = Append(log, Entry("cmd", Append(root, basename(a.path))))
          /\ base' = [base EXCEPT ![j] = stem(basename(a.path))]
    /\ run_btn' = btn_after_start
    /\ pc' = [pc EXCEPT ![j] = "popen"]
    /\ UNCHANGED <<frontend, mode, files, code, loc, listing, stems, resp, produced, steps>>
    /\ UNCHANGED <<webOnly, stdout, proc, sent, result_dir>>

\* gui 114-116: subprocess.Popen cannot start the tool and raises
GuiPopenRaises(j) ==
    /\ frontend = "desktop" /\ pc[j] = "popen"
    /\ resp' = [resp EXCEPT ![j] = Flash("OSError")]
    /\ pc' = [pc EXCEPT ![j] = "except"]
    /\ UNCHANGED <<frontend, mode, dirs, files, out_root, base, code, loc, listing, stems,
                   produced, steps>>
    /\ UNCHANGED <<webOnly, guiOnly>>

\* gui 114-116: the tool is started
GuiPopen(j) ==
    /\ frontend = "desktop" /\ pc[j] = "popen"
    /\ proc' = [proc EXCEPT ![j] = "running"]
    /\ pc' = [pc EXCEPT ![j] = "stream"]
    /\ steps' = [steps EXCEPT ![j] = Append(@, "run")]
    /\ UNCHANGED <<frontend, mode, dirs, files, out_root, base, code, loc, listing, stems,
                   resp, produced>>
    /\ UNCHANGED <<webOnly, run_btn, log, stdout, sent, result_dir>>

\* the tool writes one more line to its output; the k-th line reads "k"
ToolEmit(j) ==
    /\ frontend = "desktop" /\ proc[j] = "running"
    /\ mode = "multi"
    /\ Len(sent[j]) < MaxLines
    /\ LET line == ToString(Len(sent[j]) + 1)
       IN  /\ sent' = [sent EXCEPT ![j] = Append(@, line)]
           /\ stdout' = [stdout EXCEPT ![j] = Append(@, line)]
    /\ UNCHANGED <<frontend, mode, dirs, files, pc, out_root, base, code, loc, listing, stems,
                   resp, produced, steps>>
    /\ UNCHANGED <<webOnly, run_btn, log, proc, result_dir>>

\* the running tool writes its output below out_root, once
ToolWrite(j) ==
    /\ frontend = "desktop" /\ proc[j] = "running"
    /\ produced[j] = {}
    /\ \E out \in ToolOutputs(out_root[j], base[j]) :
          /\ out.dirs # dirs \/ out.files # files
          /\ dirs' = out.dirs
          /\ files' = out.files
          /\ produced' = [produced EXCEPT ![j] = (out.dirs \ dirs) \cup (out.files \ files)]
    /\ UNCHANGED <<frontend, mode, pc, out_root, base, code, loc, listing, stems, resp, steps>>
    /\ UNCHANGED <<webOnly, guiOnly>>

\* the tool closes its output and exits with some status
ToolExit(j) ==
    /\ frontend = "desktop" /\ proc[j] = "running"
    /\ \E rc \in ExitCodes : code' = [code EXCEPT ![j] = rc]
    /\ proc' = [proc EXCEPT ![j] = "exited"]
    /\ UNCHANGED <<frontend, mode, dirs, files, pc, out_root, base, loc, listing, stems, resp,
                   produced, steps>>
    /\ UNCHANGED <<webOnly, run_btn, log, stdout, sent, result_dir>>

\* gui 117-118: one line read from the tool and appended to the log
GuiReadLine(j) ==
    /\ frontend = "desktop" /\ pc[j] = "stream"
    /\ stdout[j] # <<>>
    /\ log' = Append(log, Entry("line", <<Head(stdout[j])>>))
    /\ stdout' = [stdout EXCEPT ![j] = Tail(@)]
    /\ UNCHANGED <<frontend, mode, dirs, files, pc, out_root, base, code, loc, listing, stems,
                   resp, produced, steps>>
    /\ UNCHANGED <<webOnly, run_btn, proc, sent, result_dir>>

\* gui 117-121: the loop ends, proc.wait() gives the exit status, and a
\* status other than zero raises
GuiWait(j) ==
    /\ frontend = "desktop" /\ pc[j] = "stream"
    /\ at_eof(j)
    /\ steps' = [steps EXCEPT ![j] = Append(@, "wait")]
    /\ IF tool_failed(code[j])
       THEN /\ resp' = [resp EXCEPT ![j] = Flash("Demucs exited with code")]
            /\ pc' = [pc EXCEPT ![j] = "except"]
       ELSE /\ pc' = [pc EXCEPT ![j] = "locate"]
            /\ UNCHANGED resp
    /\ UNCHANGED <<frontend, mode, dirs, files, out_root, base, code, loc, listing, stems,
                   produced>>
    /\ UNCHANGED <<webOnly, guiOnly>>

\* gui 123-125 with os.listdir raising (gui 128)
GuiListdirRaises(j) ==
    /\ frontend = "desktop" /\ pc[j] = "locate"
    /\ \E ord \in Perms(NamesUnder(out_root[j], dirs)) :
          LET r == locate_output_dir(out_root[j], MODEL_NAME, base[j], dirs, ord)
          IN  /\ r.dir # None
              /\ loc' = [loc EXCEPT ![j] = r]
              /\ result_dir' = r.dir
    /\ steps' = [steps EXCEPT ![j] = Append(@, "locate")]
    /\ resp' = [resp EXCEPT ![j] = Flash("OSError")]
    /\ pc' = [pc EXCEPT ![j] = "except"]
    /\ UNCHANGED <<frontend, mode, dirs, files, out_root, base, code, listing, stems, produced>>
    /\ UNCHANGED <<webOnly, run_btn, log, stdout, proc, sent>>

\* what gui 134-140 append to the log
done_entries(st, out_dir) ==
    <<Entry("done", <<>>)>>
    \o (IF st.vocals # None THEN <<Entry("vocals", st.vocals)>> ELSE <<>>)
    \o (IF st.inst # None THEN <<Entry("instrumental", st.inst)>> ELSE <<>>)
    \o <<Entry("folder", out_dir)>>

\* gui 123-143: locate the output folder; when there is one, list it, pick
\* the two stems and log what was found
GuiLocateClassify(j) ==
    /\ frontend = "desktop" /\ pc[j] = "locate"
    /\ \E ord \in Perms(NamesUnder(out_root[j], dirs)) :
          LET r == locate_output_dir(out_root[j], MODEL_NAME, base[j], dirs, ord)
          IN  /\ loc' = [loc EXCEPT ![j] = r]
              /\ result_dir' = r.dir
              /\ IF r.dir # None /\ r.dir \in dirs
                 THEN \E ls \in Perms(entries(r.dir, dirs, files)) :
                         LET st == classify(r.dir, ls, Unclassified)
                         IN  /\ listing' = [listing EXCEPT ![j] = ls]
                             /\ stems' = [stems EXCEPT ![j] = st]
                             /\ steps' = [steps EXCEPT ![j] = Append(Append(@, "locate"), "classify")]
                             /\ log' = log \o done_entries(st, r.dir) \o <<Entry("tip", <<>>)>>
                 ELSE /\ log' = log \o <<Entry("notfound", <<>>), Entry("tip", <<>>)>>
                      /\ steps' = [steps EXCEPT ![j] = Append(@, "locate")]
                      /\ UNCHANGED <<listing, stems>>
    /\ pc' = [pc EXCEPT ![j] = "finally"]
    /\ UNCHANGED <<frontend, mode, dirs, files, out_root, base, code, resp, produced>>
    /\ UNCHANGED <<webOnly, run_btn, stdout, proc, sent>>

\* gui 144-146: the exception is logged and the error box is shown; the
\* worker waits in messagebox.showerror
GuiExcept(j) ==
    /\ frontend = "desktop" /\ pc[j] = "except"
    /\ log' = Append(log, Entry("error", <<resp[j].msg>>))
    /\ pc' = [pc EXCEPT ![j] = "dialog"]
    /\ UNCHANGED <<frontend, mode, dirs, files, out_root, base, code, loc, listing, stems,
                   resp, produced, steps>>
    /\ UNCHANGED <<webOnly, run_btn, stdout, proc, sent, result_dir>>

\* the user closes the error box; messagebox.showerror returns
DismissError(j) ==
    /\ frontend = "desktop" /\ pc[j] = "dialog"
    /\ pc' = [pc EXCEPT ![j] = "finally"]
    /\ UNCHANGED <<frontend, mode, dirs, files, out_root, base, code, loc, listing, stems,
                   resp, produced, steps>>
    /\ UNCHANGED <<webOnly, guiOnly>>

\* gui 147-148: the finally clause enables the start button; the worker ends
GuiFinally(j) ==
    /\ frontend = "desktop" /\ pc[j] = "finally"
    /\ run_btn' = btn_after_finally
    /\ pc' = [pc EXCEPT ![j] = "ended"]
    /\ UNCHANGED <<frontend, mode, dirs, files, out_root, base, code, loc, listing, stems,
                   resp, produced, steps>>
    /\ UNCHANGED <<webOnly, log, stdout, proc, sent, result_dir>>

WorkerStep(j) ==
    \/ GuiPopenRaises(j)
    \/ GuiPopen(j)
    \/ GuiReadLine(j)
    \/ GuiWait(j)
    \/ GuiListdirRaises(j)
    \/ GuiLocateClassify(j)
    \/ GuiExcept(j)
    \/ GuiFinally(j)

GuiNext ==
    \E j \in Jobs :
        \/ GuiRejectInput(j)
        \/ start_separation(j)
        \/ WorkerStep(j)
        \/ ToolEmit(j)
        \/ ToolWrite(j)
        \/ ToolExit(j)
        \/ DismissError(j)

Next == WebNext \/ GuiNext
Spec == Init /\ [][Next]_vars

(***************************************************************************)
(* The desktop front-end alone, with the fairness its scheduling gives:    *)
(* the worker thread keeps running while it has a step to take, and the    *)
(* tool, once started, exits.  Nothing makes the user click, or close the  *)
(* error box.                                                              *)
(***************************************************************************)
InitGui == Init /\ frontend = "desktop"
Progress == \E j \in Jobs : WorkerStep(j) \/ ToolExit(j)
Fairness == WF_vars(Progress)
FairSpec == InitGui /\ [][GuiNext]_vars /\ Fairness

(***************************************************************************)
(* What the claims speak of.                                               *)
(***************************************************************************)
Ran(j, step) == step \in Range(steps[j])
Finished(j) == pc[j] \in {"done", "ended"}
Expected(j) == Join(Join(out_root[j], MODEL_NAME), base[j])
\* the directories named like the track that lay below the output root
\* when the locator ran
NamedUnder(j) ==
    {p \in loc[j].disk : IsUnder(p, out_root[j]) /\ basename(p) = base[j]}
ExitedNonZero(j) == code[j] # NoStatus /\ code[j] # 0
InFlight(j) == pc[j] \in {"popen", "stream", "locate", "except", "dialog", "finally"}
Count(seq, e) == Cardinality({i \in 1..Len(seq) : seq[i] = e})

\* C1: a listing of exactly track_vocals.mp3 and track_no_vocals.mp3, in
\* either order, gives track_vocals.mp3 as vocals and track_no_vocals.mp3
\* as instrumental, in both front-ends.
C1_TrackPairClassified ==
    \A j \in Jobs :
        (Ran(j, "classify") /\ Len(listing[j]) = 2
         /\ Range(listing[j]) = {"track_vocals.mp3", "track_no_vocals.mp3"})
        => /\ stems[j].vocals = Join(loc[j].dir, "track_vocals.mp3")
           /\ stems[j].inst = Join(loc[j].dir, "track_no_vocals.mp3")

\* C2: in both front-ends a job whose listing leaves the vocals or the
\* instrumental category empty ends in a failure shown to the user.
C2_MissingStemFailsJob ==
    \A j \in Jobs :
        (Ran(j, "classify") /\ Finished(j)
         /\ (stems[j].vocals = None \/ stems[j].inst = None))
        => resp[j].kind = "flash"

\* C3: when root/model/base is a directory the locator returns exactly it
\* and does not walk root, whatever else is named base below root.
C3_ExpectedDirNoWalk ==
    \A j \in Jobs :
        (Ran(j, "locate") /\ Expected(j) \in loc[j].disk)
        => loc[j].dir = Expected(j) /\ ~loc[j].walked
C3_Witness ==
    \E j \in Jobs :
        /\ Ran(j, "locate") /\ loc[j].dir = Expected(j)
        /\ NamedUnder(j) \ {Expected(j)} # {}

\* C4: when root/model/base is no directory and several directories named
\* base lie below root, the locator returns the first one its walk met.
C4_FallbackReturnsFirstMet ==
    \A j \in Jobs :
        (Ran(j, "locate") /\ loc[j].walked /\ Len(loc[j].met) >= 2)
        => loc[j].dir = loc[j].met[1]

\* C5: when root/model/base is no directory the locator reports not-found
\* exactly when no directory named base lies below root, and otherwise
\* returns one of the directories named base below root.
C5_NotFoundIffNoneNamed ==
    \A j \in Jobs :
        (Ran(j, "locate") /\ Expected(j) \notin loc[j].disk)
        => /\ (loc[j].dir = None) <=> (NamedUnder(j) = {})
           /\ loc[j].dir # None => loc[j].dir \in NamedUnder(j)

\* C6: a job whose tool exited with a non-zero status never locates,
\* classifies or publishes, runs the tool once only, and ends in a failure
\* shown to the user, whatever output the tool left.
C6_NonZeroExitIsFailure ==
    \A j \in Jobs :
        ExitedNonZero(j)
        => /\ ~Ran(j, "locate") /\ ~Ran(j, "classify") /\ ~Ran(j, "publish")
           /\ pc[j] \notin {"locate", "copy_vocals", "copy_inst"}
           /\ Count(steps[j], "run") = 1
           /\ published[j] = {}
           /\ Finished(j) => resp[j].kind = "flash"
C6_Witness ==
    \E j \in Jobs :
        /\ ExitedNonZero(j) /\ Finished(j)
        /\ Expected(j) \in dirs
        /\ \A f \in StandardStems : Join(Expected(j), f) \in files

\* C7: web: a job publishes a file to its job folder only when both stems
\* were classified; a job that failed at the exit status, at locating or at
\* classifying has published nothing and answers without a result URL.
C7_NoPartialPublication ==
    frontend = "web" =>
    \A j \in Jobs :
        /\ published[j] # {}
           => Ran(j, "classify") /\ stems[j].vocals # None /\ stems[j].inst # None
        /\ (Finished(j) /\ (code[j] # 0 \/ loc[j].dir = None
                            \/ stems[j].vocals = None \/ stems[j].inst = None))
           => /\ published[j] = {}
              /\ resp[j].kind = "flash"
              /\ resp[j].vocals_url = None /\ resp[j].instrumental_url = None
        /\ resp[j].kind = "render"
           => /\ published[j] = {vocals_out(j), inst_out(j)}
              /\ published[j] \subseteq files
        /\ \A f \in files :
              (job_id[j] # "" /\ SubSeq(f, 1, Len(f) - 1) = Join(RESULTS_DIR, job_id[j]))
              => \E k \in Jobs : job_id[k] = job_id[j] /\ f \in published[k]
C7_Witness ==
    /\ frontend = "web"
    /\ \E j \in Jobs :
          /\ Finished(j) /\ Ran(j, "classify")
          /\ stems[j].vocals = None /\ stems[j].inst # None
          /\ published[j] = {} /\ resp[j].kind = "flash"

\* C8: desktop: while a worker is in flight the start button is disabled,
\* so at most one worker, and one run of the tool, is in flight.
C8_OneWorkerInFlight ==
    frontend = "desktop" =>
        /\ Cardinality({j \in Jobs : InFlight(j)}) <= 1
        /\ Cardinality({j \in Jobs : proc[j] = "running"}) <= 1
        /\ (\E j \in Jobs : InFlight(j)) => run_btn = "disabled"
C8_Witness ==
    /\ frontend = "desktop"
    /\ pc[1] = "ended" /\ proc[2] = "running" /\ run_btn = "disabled"

\* the paths a web job creates, scans or writes: its job folder and raw
\* subfolder, what its run of the tool wrote, what its locator walked and
\* returned, the entries it listed, and the two files it published
Touched(j) ==
    IF job_id[j] = "" THEN {}
    ELSE {SubSeq(out_root[j], 1, Len(out_root[j]) - 1), out_root[j]}
         \cup produced[j]
         \cup (IF loc[j].walked THEN Tree(out_root[j], loc[j].disk) ELSE {})
         \cup ({loc[j].dir, stems[j].vocals, stems[j].inst} \ {None})
         \cup {Join(loc[j].dir, n) : n \in Range(listing[j])}
         \cup published[j]

\* C9: web: two jobs whose job identifiers differ touch disjoint paths.
C9_JobsTouchDisjointPaths ==
    frontend = "web" =>
    \A j, k \in Jobs :
        (j # k /\ job_id[j] # "" /\ job_id[k] # "" /\ job_id[j] # job_id[k])
        => Touched(j) \cap Touched(k) = {}
C9_Witness ==
    /\ frontend = "web"
    /\ job_id[1] # job_id[2]
    /\ resp[1].kind = "render" /\ resp[2].kind = "render"

\* the lines in the log, in order, and the lines the tools of jobs 1..j wrote
LoggedLines ==
    LET es == SelectSeq(log, LAMBDA e : e.k = "line")
    IN  [i \in 1..Len(es) |-> es[i].v[1]]
RECURSIVE SentUpTo(_)
SentUpTo(j) == IF j = 0 THEN <<>> ELSE SentUpTo(j - 1) \o sent[j]

\* the second half of C10: the log holds the tools' lines in the order they
\* were written, and a job's exit status is examined only once every line
\* of its tool is in the log
LinesBeforeStatus ==
    /\ IsPrefix(LoggedLines, SentUpTo(MaxJobs))
    /\ \A j \in Jobs : Ran(j, "wait") => IsPrefix(SentUpTo(j), LoggedLines)

\* C10 as stated: once a worker is started (and its tool exits) the
\* start button is eventually enabled again on every outcome, and the exit
\* status is examined only after every line is in the log.
C10_AlwaysReenabled ==
    /\ \A j \in Jobs : (pc[j] = "popen") ~> (run_btn = "normal")
    /\ []LinesBeforeStatus

\* C10 as amended: once a worker is started (and its tool exits) the start
\* button is eventually enabled again, or the worker waits in the error box
\* it shows on an exception; once the box is closed the button is enabled.
\* The exit status is examined only after every line is in the log.
C10_ReenabledOrErrorBox ==
    /\ \A j \in Jobs : (pc[j] = "popen") ~> (run_btn = "normal" \/ pc[j] = "dialog")
    /\ \A j \in Jobs : (pc[j] = "finally") ~> (run_btn = "normal")
    /\ []LinesBeforeStatus
C10_Witness ==
    /\ frontend = "desktop"
    /\ \E j \in Jobs :
          /\ pc[j] = "ended" /\ run_btn = "normal"
          /\ ExitedNonZero(j) /\ Len(sent[j]) = MaxLines
          /\ LoggedLines = SentUpTo(j)
=============================================================================
